---------------------------- MODULE Spec2Model ----------------------------
(***************************************************************************)
(* The concurrent entry store of the FortiGate list manager (src/app.py):  *)
(* named line-oriented list files, a per-path lock registry, a backup      *)
(* taken before every mutation, and an append-only change log.             *)
(*                                                                         *)
(* Text is a sequence of one-character strings.  File content, entry       *)
(* values and lines are all text; a list of lines is a sequence of text.   *)
(***************************************************************************)
EXTENDS Integers, Sequences, FiniteSets, TLC

(***************************************************************************)
(* Bounds of the model.                                                    *)
(***************************************************************************)
NThreads == 2      \* request threads of the concurrent specification
MaxCalls == 3      \* calls started in one behaviour
PairCalls == 2     \* calls started in one behaviour of SpecPair
MaxClock == 2      \* seconds the wall clock can show (1..MaxClock)
MaxIndex == 1      \* indices offered to update/delete are -1..MaxIndex
OneCalls == 1      \* calls started in one behaviour of SpecOne
ListCalls == 3     \* calls started in one behaviour of SpecList
TwoCalls == 2      \* calls started in one behaviour of SpecTwo
LogCalls == 2      \* calls started in one behaviour of SpecLog
FailCalls == 2     \* calls started in one behaviour of SpecFail

SP == " "
NL == "\n"
CR == "\r"

(***************************************************************************)
(* str.strip(), str.rstrip('\n\r'), text-mode decoding and readlines().    *)
(***************************************************************************)
\* Characters str.strip() removes (the whitespace of the model's alphabet).
IsSpace(c) == c \in {SP, NL, CR}

RECURSIVE lstrip(_)
lstrip(s) ==
    IF s = <<>> THEN <<>>
    ELSE IF IsSpace(Head(s)) THEN lstrip(Tail(s)) ELSE s

RECURSIVE rstrip(_)
rstrip(s) ==
    IF s = <<>> THEN <<>>
    ELSE IF IsSpace(s[Len(s)]) THEN rstrip(SubSeq(s, 1, Len(s) - 1)) ELSE s

\* value.strip() / line.strip()
strip(s) == rstrip(lstrip(s))

\* line.rstrip('\n\r')
RECURSIVE rstrip_nlcr(_)
rstrip_nlcr(s) ==
    IF s = <<>> THEN <<>>
    ELSE IF s[Len(s)] \in {NL, CR} THEN rstrip_nlcr(SubSeq(s, 1, Len(s) - 1))
    ELSE s

\* Reading in text mode (newline=None): "\r\n" and a lone "\r" become "\n".
RECURSIVE universal_newlines(_)
universal_newlines(s) ==
    IF s = <<>> THEN <<>>
    ELSE IF Head(s) = CR
         THEN IF Len(s) >= 2 /\ s[2] = NL
              THEN <<NL>> \o universal_newlines(Tail(Tail(s)))
              ELSE <<NL>> \o universal_newlines(Tail(s))
         ELSE <<Head(s)>> \o universal_newlines(Tail(s))

\* f.read() of a file opened with mode 'r'
text_read(bytes) == universal_newlines(bytes)

\* Index of the first "\n" of s, 0 when there is none.
FirstNL(s) ==
    IF \E i \in 1..Len(s) : s[i] = NL
    THEN CHOOSE i \in 1..Len(s) : s[i] = NL /\ \A j \in 1..(i - 1) : s[j] # NL
    ELSE 0

\* f.readlines(): the lines of the decoded text, each keeping its "\n".
RECURSIVE readlines(_)
readlines(s) ==
    IF s = <<>> THEN <<>>
    ELSE LET i == FirstNL(s) IN
         IF i = 0 THEN <<s>>
         ELSE <<SubSeq(s, 1, i)>> \o readlines(SubSeq(s, i + 1, Len(s)))

\* '\n'.join(lines)
RECURSIVE join(_)
join(lines) ==
    IF lines = <<>> THEN <<>>
    ELSE IF Len(lines) = 1 THEN lines[1]
    ELSE lines[1] \o <<NL>> \o join(Tail(lines))

NonBlank(line) == strip(line) # <<>>

\* A faulty list comprehension: it has no "if line.strip()".
RECURSIVE keep_all(_)
keep_all(raw) ==
    IF raw = <<>> THEN <<>>
    ELSE <<rstrip_nlcr(Head(raw))>> \o keep_all(Tail(raw))

\* [line.rstrip('\n\r') for line in raw if line.strip()]
RECURSIVE keep_nonblank(_)
keep_nonblank(raw) ==
    IF raw = <<>> THEN <<>>
    ELSE (IF NonBlank(Head(raw)) THEN <<rstrip_nlcr(Head(raw))>> ELSE <<>>)
         \o keep_nonblank(Tail(raw))

\* read_file_lines on the bytes of an existing file
parse_lines(bytes) == keep_nonblank(readlines(text_read(bytes)))

\* What write_file_lines puts in the file: the lines joined by "\n", and a
\* trailing "\n" if there is any line.
format_lines(lines) == join(lines) \o (IF lines # <<>> THEN <<NL>> ELSE <<>>)

\* value in lines
InLines(value, lines) == \E i \in 1..Len(lines) : lines[i] = value

\* lines.index(value), 0-based; only used when value is in lines
IndexOf(value, lines) ==
    (CHOOSE i \in 1..Len(lines) :
        lines[i] = value /\ \A j \in 1..(i - 1) : lines[j] # value) - 1

\* lines.pop(index) leaves lines without the element at 0-based index.
RemoveAt(lines, index) ==
    SubSeq(lines, 1, index) \o SubSeq(lines, index + 2, Len(lines))

(***************************************************************************)
(* validate_filename and validate_entry.                                   *)
(***************************************************************************)
BASE_DIR == <<"home", "data", "share", "txt">>

\* The characters [a-zA-Z0-9_\-\.] of the model's alphabet.
NameChars == {"a", "b", "k", "t", "x", "_", "-", "."}

\* filename.endswith('.txt')
EndsWithTxt(filename) ==
    /\ Len(filename) >= 4
    /\ SubSeq(filename, Len(filename) - 3, Len(filename)) = <<".", "t", "x", "t">>

\* '..' in filename or '/' in filename or '\\' in filename
HasTraversal(filename) ==
    \/ \E i \in 1..(Len(filename) - 1) : filename[i] = "." /\ filename[i + 1] = "."
    \/ \E i \in 1..Len(filename) : filename[i] \in {"/", "\\"}

\* re.match(r'^[a-zA-Z0-9_\-\.]+\.txt$', filename), for a name that ends
\* with '.txt' (the first check of validate_filename)
MatchesPattern(filename) ==
    /\ Len(filename) >= 5
    /\ EndsWithTxt(filename)
    /\ \A i \in 1..Len(filename) : filename[i] \in NameChars

\* (BASE_DIR / filename).resolve(): the components of the path; the storage
\* root holds no symbolic links.
ResolvedPath(filename) == BASE_DIR \o <<filename>>

\* filepath.resolve().relative_to(BASE_DIR.resolve()) does not raise
InsideBaseDir(path) ==
    /\ Len(path) >= Len(BASE_DIR)
    /\ SubSeq(path, 1, Len(BASE_DIR)) = BASE_DIR

\* A faulty validate_filename: it only looks at the suffix.
validate_filename_suffix(filename) ==
    IF ~EndsWithTxt(filename) THEN "Only .txt files are allowed" ELSE ""

\* The detail of the HTTPException validate_filename raises, "" when it
\* returns the path.
validate_filename(filename) ==
    IF ~EndsWithTxt(filename) THEN "Only .txt files are allowed"
    ELSE IF HasTraversal(filename) THEN "Invalid filename"
    ELSE IF ~MatchesPattern(filename) THEN "Invalid filename characters"
    ELSE IF ~InsideBaseDir(ResolvedPath(filename)) THEN "Invalid file path"
    ELSE ""

\* validate_entry returns value.strip(), and raises when that is empty.
validate_entry(value) == strip(value)

(***************************************************************************)
(* The requests of the model.                                              *)
(***************************************************************************)
A_TXT == <<"a", ".", "t", "x", "t">>

\* The list files of the storage root a request can name.
ListFiles == {A_TXT}

\* Names validate_filename has to reject: "../a.txt", "a/b.txt", "a\\b.txt",
\* "a .txt" (a character outside the allow-list) and "a" (no suffix).
BadNames ==
    { <<".", ".", "/", "a", ".", "t", "x", "t">>,
      <<"a", "/", "b", ".", "t", "x", "t">>,
      <<"a", "\\", "b", ".", "t", "x", "t">>,
      <<"a", SP, ".", "t", "x", "t">>,
      <<"a">> }

\* Two more valid list names: "b.txt" and "a.bak.txt".
B_TXT == <<"b", ".", "t", "x", "t">>
A_BAK_TXT == <<"a", ".", "b", "a", "k", ".", "t", "x", "t">>
MoreLists == {B_TXT, A_BAK_TXT}

\* Every name a request can carry; each denotes one path of the file system.
Names == ListFiles \cup MoreLists \cup BadNames

Threads == 1..NThreads
Times   == 1..MaxClock
Indices == (0 - 1)..MaxIndex

Request(op, filename, index, value) ==
    [op |-> op, filename |-> filename, index |-> index, value |-> value]

NoRequest == Request("none", <<>>, 0, <<>>)

\* Requests of the concurrent specification: plain single-line values and
\* indices from 0.
ConcValues == {<<"a">>, <<"b">>}
ConcRequests ==
    {Request("add", A_TXT, 0, v) : v \in ConcValues}
    \cup {Request("update", A_TXT, i, v) : i \in 0..MaxIndex, v \in ConcValues}
    \cup {Request("delete", A_TXT, i, <<>>) : i \in 0..MaxIndex}
    \cup {Request("read", A_TXT, 0, <<>>), Request("export", A_TXT, 0, <<>>)}

\* Requests of the specifications SpecPair and SpecFail: every kind of
\* request, at the first index.
PairRequests ==
    {Request("add", A_TXT, 0, v) : v \in ConcValues}
    \cup { Request("update", A_TXT, 0, <<"b">>),
           Request("delete", A_TXT, 0, <<>>), Request("read", A_TXT, 0, <<>>),
           Request("export", A_TXT, 0, <<>>) }

\* Requests of the sequential specification: values that need trimming, are
\* empty once trimmed, or hold line breaks, and indices from -1.
SeqValues ==
    { <<"a">>, <<"b">>, <<SP, "a", SP>>, <<SP>>,
      <<"a", NL, NL, "a">>, <<"a", CR, "b">> }
SeqRequests ==
    {Request("add", A_TXT, 0, v) : v \in SeqValues}
    \cup {Request("update", A_TXT, i, v) : i \in Indices, v \in SeqValues}
    \cup {Request("delete", A_TXT, i, <<>>) : i \in Indices}
    \cup {Request("read", A_TXT, 0, <<>>), Request("export", A_TXT, 0, <<>>)}

(***************************************************************************)
(* State.                                                                  *)
(***************************************************************************)
VARIABLES
    files,       \* the list files of BASE_DIR: [exists, bytes] per name
    backups,     \* the files <name>.bak.<timestamp>: [exists, bytes]
    change_log,  \* the lines of change.log, oldest first
    now,         \* datetime.now(), in seconds
    file_locks,  \* _file_locks: the lock handle of each key, 0 for no entry
    lock_held,   \* per lock handle, the thread holding it, 0 when free
    lock_mutex,  \* the thread holding _lock_mutex, 0 when free
    pc,          \* per thread, the place it has reached in its call
    req,         \* per thread, the request it serves
    loc,         \* per thread, the local variables of the call
    res,         \* per thread, the response of the call once it is done
    ghost,       \* per thread, what the call saw and did (history only)
    hist         \* the calls that have returned, in order of return

vars == <<files, backups, change_log, now, file_locks, lock_held, lock_mutex,
          pc, req, loc, res, ghost, hist>>

NoFile == [exists |-> FALSE, bytes |-> <<>>]

Response(status, detail) ==
    [status |-> status, detail |-> detail, index |-> 0, value |-> <<>>,
     old_value |-> <<>>, entries |-> <<>>, count |-> 0, content |-> <<>>,
     files |-> <<>>]

NoResponse == Response(0, "")

\* log_entry: the line log_change has formatted; flock: the thread's open
\* change.log holds the exclusive advisory lock; buffer: the lines written to
\* the thread's file object that have not reached the file.
NoLocals ==
    [value |-> <<>>, timestamp |-> 0, lock |-> 0, content |-> <<>>,
     lines |-> <<>>, old_value |-> <<>>,
     log_entry |-> <<>>, flock |-> FALSE, buffer |-> <<>>]

\* start: the list file as it was when the call began; log_start: the
\* change log as it was when the call began; snapshot: the call has written
\* its backup completely; rewrote: the call's rewrite has begun; before: the
\* list file as it was when the call's rewrite began; snapshot_failed,
\* log_failed: an I/O error ended the call's create_backup, log_change;
\* rewrite_no: the call's rewrite is the rewrite_no-th rewrite of a list file
\* since the start; ledger_no: the call's ledger line is the ledger_no-th
\* line of the change log (0: none yet).
NoGhost ==
    [start |-> NoFile, log_start |-> <<>>, snapshot |-> FALSE, rewrote |-> FALSE,
     before |-> NoFile, snapshot_failed |-> FALSE, log_failed |-> FALSE,
     rewrite_no |-> 0, ledger_no |-> 0]

Init ==
    /\ files = [n \in Names |-> NoFile]
    /\ backups = [b \in Names \X Times |-> NoFile]
    /\ change_log = <<>>
    /\ now = 1
    /\ file_locks = [n \in Names |-> 0]
    /\ lock_held = <<>>
    /\ lock_mutex = 0
    /\ pc = [t \in Threads |-> "idle"]
    /\ req = [t \in Threads |-> NoRequest]
    /\ loc = [t \in Threads |-> NoLocals]
    /\ res = [t \in Threads |-> NoResponse]
    /\ ghost = [t \in Threads |-> NoGhost]
    /\ hist = <<>>

\* The rewrites of list files begun so far: one by every call that has
\* returned with a rewrite behind it, and one by every call under way that has
\* begun its rewrite.
RewritesSoFar ==
    Cardinality({i \in 1..Len(hist) : hist[i].rewrote})
    + Cardinality({t \in Threads : ghost[t].rewrote})

CallsStarted == Len(hist) + Cardinality({t \in Threads : pc[t] # "idle"})

\* The wall clock moves on by a second.
Tick ==
    /\ now < MaxClock
    /\ now' = now + 1
    /\ UNCHANGED <<files, backups, change_log, file_locks, lock_held,
                   lock_mutex, pc, req, loc, res, ghost, hist>>

(***************************************************************************)
(* The start of each handler: the request arrives, the name and the value  *)
(* are validated and, where the handler does so, the file's existence is   *)
(* checked.                                                                *)
(***************************************************************************)
\* The call raises HTTPException(status, detail).
Raise(t, status, detail) ==
    /\ pc' = [pc EXCEPT ![t] = "done"]
    /\ res' = [res EXCEPT ![t] = Response(status, detail)]

Begin(t, r) ==
    /\ pc[t] = "idle"
    /\ req' = [req EXCEPT ![t] = r]
    /\ ghost' = [ghost EXCEPT ![t] = [NoGhost EXCEPT !.start = files[r.filename],
                                                     !.log_start = change_log]]
    /\ UNCHANGED <<files, backups, change_log, now, file_locks, lock_held,
                   lock_mutex, hist>>

\* A faulty existence check: it finds every file.
MissingNever(filename) == FALSE

\* not filepath.exists()
Missing(filename) == ~files[filename].exists

\* A faulty mutation: it goes straight to read_file_lines, without a backup.
MutationStartNoBackup == "rd_exists"

\* The first place of a mutation after its validation: create_backup.
MutationStart == "cb_exists"

\* add_entry, lines 256-257
AddCall(t, r) ==
    /\ r.op = "add"
    /\ Begin(t, r)
    /\ IF validate_filename(r.filename) # ""
       THEN Raise(t, 400, validate_filename(r.filename)) /\ UNCHANGED loc
       ELSE IF validate_entry(r.value) = <<>>
       THEN Raise(t, 400, "Empty entries are not allowed") /\ UNCHANGED loc
       ELSE /\ pc' = [pc EXCEPT ![t] = MutationStart]
            /\ loc' = [loc EXCEPT ![t].value = validate_entry(r.value)]
            /\ UNCHANGED res

\* update_entry, lines 281-286
UpdateCall(t, r) ==
    /\ r.op = "update"
    /\ Begin(t, r)
    /\ IF validate_filename(r.filename) # ""
       THEN Raise(t, 400, validate_filename(r.filename)) /\ UNCHANGED loc
       ELSE IF Missing(r.filename)
       THEN Raise(t, 404, "File not found") /\ UNCHANGED loc
       ELSE IF validate_entry(r.value) = <<>>
       THEN Raise(t, 400, "Empty entries are not allowed") /\ UNCHANGED loc
       ELSE /\ pc' = [pc EXCEPT ![t] = MutationStart]
            /\ loc' = [loc EXCEPT ![t].value = validate_entry(r.value)]
            /\ UNCHANGED res

\* delete_entry, lines 313-316
DeleteCall(t, r) ==
    /\ r.op = "delete"
    /\ Begin(t, r)
    /\ IF validate_filename(r.filename) # ""
       THEN Raise(t, 400, validate_filename(r.filename)) /\ UNCHANGED loc
       ELSE IF Missing(r.filename)
       THEN Raise(t, 404, "File not found") /\ UNCHANGED loc
       ELSE /\ pc' = [pc EXCEPT ![t] = MutationStart]
            /\ UNCHANGED <<loc, res>>

\* get_file_entries, lines 243-246
ReadCall(t, r) ==
    /\ r.op = "read"
    /\ Begin(t, r)
    /\ IF validate_filename(r.filename) # ""
       THEN Raise(t, 400, validate_filename(r.filename)) /\ UNCHANGED loc
       ELSE IF Missing(r.filename)
       THEN Raise(t, 404, "File not found") /\ UNCHANGED loc
       ELSE /\ pc' = [pc EXCEPT ![t] = "rd_exists"]
            /\ UNCHANGED <<loc, res>>

\* export_file, lines 337-340
ExportCall(t, r) ==
    /\ r.op = "export"
    /\ Begin(t, r)
    /\ IF validate_filename(r.filename) # ""
       THEN Raise(t, 400, validate_filename(r.filename)) /\ UNCHANGED loc
       ELSE IF Missing(r.filename)
       THEN Raise(t, 404, "File not found") /\ UNCHANGED loc
       ELSE /\ pc' = [pc EXCEPT ![t] = "ex_mutex"]
            /\ UNCHANGED <<loc, res>>

(***************************************************************************)
(* file_lock and get_file_lock.  A thread at "<f>_mutex" is about to enter *)
(* get_file_lock for function <f>: cb is create_backup, rd is              *)
(* read_file_lines, wr is write_file_lines, ex is export_file.             *)
(***************************************************************************)
Fns == {"cb", "rd", "wr", "ex"}

AtMutex   == {fn \o "_mutex" : fn \in Fns}
AtLookup  == {fn \o "_lookup" : fn \in Fns}
AtAcquire == {fn \o "_acquire" : fn \in Fns}
AtRelease == {fn \o "_release" : fn \in Fns}

\* The function whose file_lock block a thread at label is entering, in or
\* leaving.
Fn(label) ==
    CHOOSE fn \in Fns :
        label \in {fn \o "_mutex", fn \o "_lookup", fn \o "_acquire", fn \o "_release"}

\* with _lock_mutex: (entering the block)
GetFileLockEnter(t) ==
    /\ pc[t] \in AtMutex
    /\ lock_mutex = 0
    /\ lock_mutex' = t
    /\ pc' = [pc EXCEPT ![t] = Fn(pc[t]) \o "_lookup"]
    /\ UNCHANGED <<files, backups, change_log, now, file_locks, lock_held,
                   req, loc, res, ghost, hist>>

\* A faulty registry key: the same for every path.
LockKeyGlobal(filename) == A_TXT

\* key = str(filepath.resolve()): one key per path.
LockKey(filename) == filename

\* A faulty lookup: it makes a new lock on every call.
NeedsNewLockAlways(key) == TRUE

\* if key not in _file_locks: a key without a lock gets a new one.
NeedsNewLock(key) == file_locks[key] = 0

\* The body of get_file_lock, and leaving the block.
GetFileLockBody(t) ==
    LET key == LockKey(req[t].filename) IN
    /\ pc[t] \in AtLookup
    /\ lock_mutex = t
    /\ IF NeedsNewLock(key)
       THEN /\ lock_held' = Append(lock_held, 0)
            /\ file_locks' = [file_locks EXCEPT ![key] = Len(lock_held) + 1]
       ELSE UNCHANGED <<lock_held, file_locks>>
    /\ loc' = [loc EXCEPT ![t].lock = file_locks'[key]]
    /\ lock_mutex' = 0
    /\ pc' = [pc EXCEPT ![t] = Fn(pc[t]) \o "_acquire"]
    /\ UNCHANGED <<files, backups, change_log, now, req, res, ghost, hist>>

\* What a thread does first once it holds the lock.
Locked(fn) ==
    CASE fn = "cb" -> "cb_src"
      [] fn = "rd" -> "rd_read"
      [] fn = "wr" -> "wr_open"
      [] fn = "ex" -> "ex_read"

\* A faulty lock.acquire(): it never waits.
CanAcquireHeld(lock) == lock \in 1..Len(lock_held)

\* lock.acquire() returns only when no thread holds the lock.
CanAcquire(lock) == lock_held[lock] = 0

\* lock.acquire()
LockAcquire(t) ==
    /\ pc[t] \in AtAcquire
    /\ CanAcquire(loc[t].lock)
    /\ lock_held' = [lock_held EXCEPT ![loc[t].lock] = t]
    /\ pc' = [pc EXCEPT ![t] = Locked(Fn(pc[t]))]
    /\ UNCHANGED <<files, backups, change_log, now, file_locks, lock_mutex,
                   req, loc, res, ghost, hist>>

\* Where a thread goes on after the with file_lock(...) block.
Released(fn) ==
    CASE fn = "cb" -> "rd_exists"
      [] fn = "rd" -> "handler"
      [] fn = "wr" -> "log"
      [] fn = "ex" -> "done"

\* A faulty exit of the with block: the lock stays held.
LockReleaseKept(t) ==
    /\ pc[t] \in AtRelease
    /\ loc' = [loc EXCEPT ![t].lock = 0]
    /\ pc' = [pc EXCEPT ![t] = Released(Fn(pc[t]))]
    /\ UNCHANGED <<files, backups, change_log, now, file_locks, lock_mutex,
                   lock_held, req, res, ghost, hist>>

\* finally: lock.release()
LockRelease(t) ==
    /\ pc[t] \in AtRelease
    /\ lock_held' = [lock_held EXCEPT ![loc[t].lock] = 0]
    /\ loc' = [loc EXCEPT ![t].lock = 0]
    /\ pc' = [pc EXCEPT ![t] = Released(Fn(pc[t]))]
    /\ UNCHANGED <<files, backups, change_log, now, file_locks, lock_mutex,
                   req, res, ghost, hist>>

(***************************************************************************)
(* create_backup                                                           *)
(***************************************************************************)
\* if filepath.exists(): timestamp = datetime.now()...
CbExists(t) ==
    /\ pc[t] = "cb_exists"
    /\ IF files[req[t].filename].exists
       THEN /\ loc' = [loc EXCEPT ![t].timestamp = now]
            /\ pc' = [pc EXCEPT ![t] = "cb_mutex"]
       ELSE /\ pc' = [pc EXCEPT ![t] = "rd_exists"]
            /\ UNCHANGED loc
    /\ UNCHANGED <<files, backups, change_log, now, file_locks, lock_held,
                   lock_mutex, req, res, ghost, hist>>

\* Under the lock: the file is opened if it exists, and read.
CbSrc(t) ==
    LET f == files[req[t].filename] IN
    /\ pc[t] = "cb_src"
    /\ IF f.exists
       THEN /\ loc' = [loc EXCEPT ![t].content = text_read(f.bytes)]
            /\ pc' = [pc EXCEPT ![t] = "cb_dst_open"]
       ELSE /\ pc' = [pc EXCEPT ![t] = "cb_release"]
            /\ UNCHANGED loc
    /\ UNCHANGED <<files, backups, change_log, now, file_locks, lock_held,
                   lock_mutex, req, res, ghost, hist>>

\* open(backup_path, 'w') creates the backup file or empties it.
CbDstOpen(t) ==
    /\ pc[t] = "cb_dst_open"
    /\ backups' = [backups EXCEPT ![<<req[t].filename, loc[t].timestamp>>] =
                      [exists |-> TRUE, bytes |-> <<>>]]
    /\ pc' = [pc EXCEPT ![t] = "cb_dst_write"]
    /\ UNCHANGED <<files, change_log, now, file_locks, lock_held, lock_mutex,
                   req, loc, res, ghost, hist>>

\* dst.write(content), and the file is closed.
CbDstWrite(t) ==
    /\ pc[t] = "cb_dst_write"
    /\ backups' = [backups EXCEPT ![<<req[t].filename, loc[t].timestamp>>].bytes =
                      loc[t].content]
    /\ ghost' = [ghost EXCEPT ![t].snapshot = TRUE]
    /\ pc' = [pc EXCEPT ![t] = "cb_release"]
    /\ UNCHANGED <<files, change_log, now, file_locks, lock_held, lock_mutex,
                   req, loc, res, hist>>

(***************************************************************************)
(* read_file_lines                                                         *)
(***************************************************************************)
\* if not filepath.exists(): return []
RdExists(t) ==
    /\ pc[t] = "rd_exists"
    /\ IF files[req[t].filename].exists
       THEN /\ pc' = [pc EXCEPT ![t] = "rd_mutex"]
            /\ UNCHANGED loc
       ELSE /\ pc' = [pc EXCEPT ![t] = "handler"]
            /\ loc' = [loc EXCEPT ![t].lines = <<>>]
    /\ UNCHANGED <<files, backups, change_log, now, file_locks, lock_held,
                   lock_mutex, req, res, ghost, hist>>

\* A faulty read_file_lines: it opens the file with mode 'w', which empties it.
RdReadTruncating(t) ==
    /\ pc[t] = "rd_read"
    /\ files' = [files EXCEPT ![req[t].filename] = [exists |-> TRUE, bytes |-> <<>>]]
    /\ loc' = [loc EXCEPT ![t].lines = <<>>]
    /\ pc' = [pc EXCEPT ![t] = "rd_release"]
    /\ UNCHANGED <<backups, change_log, now, file_locks, lock_held,
                   lock_mutex, req, res, ghost, hist>>

\* Under the lock: the non-blank lines of the file, [] if it is not there.
RdRead(t) ==
    LET f == files[req[t].filename] IN
    /\ pc[t] = "rd_read"
    /\ loc' = [loc EXCEPT ![t].lines =
                  IF f.exists THEN parse_lines(f.bytes) ELSE <<>>]
    /\ pc' = [pc EXCEPT ![t] = "rd_release"]
    /\ UNCHANGED <<files, backups, change_log, now, file_locks, lock_held,
                   lock_mutex, req, res, ghost, hist>>

(***************************************************************************)
(* write_file_lines                                                        *)
(***************************************************************************)
\* open(filepath, 'w') creates the file or empties it.
WrOpen(t) ==
    /\ pc[t] = "wr_open"
    /\ files' = [files EXCEPT ![req[t].filename] = [exists |-> TRUE, bytes |-> <<>>]]
    /\ ghost' = [ghost EXCEPT ![t].rewrote = TRUE,
                              ![t].before = files[req[t].filename],
                              ![t].rewrite_no = RewritesSoFar + 1]
    /\ pc' = [pc EXCEPT ![t] = "wr_write"]
    /\ UNCHANGED <<backups, change_log, now, file_locks, lock_held, lock_mutex,
                   req, loc, res, hist>>

\* f.write('\n'.join(lines)), f.write('\n') if lines, and the file is closed.
WrWrite(t) ==
    /\ pc[t] = "wr_write"
    /\ files' = [files EXCEPT ![req[t].filename].bytes = format_lines(loc[t].lines)]
    /\ pc' = [pc EXCEPT ![t] = "wr_release"]
    /\ UNCHANGED <<backups, change_log, now, file_locks, lock_held, lock_mutex,
                   req, loc, res, ghost, hist>>

(***************************************************************************)
(* The handlers after read_file_lines has returned.                        *)
(***************************************************************************)
\* [{"index": i, "value": line} for i, line in enumerate(lines)]
Enumerate(lines) == [i \in 1..Len(lines) |-> [index |-> i - 1, value |-> lines[i]]]

\* get_file_entries, lines 249-251
ReadReturn(t) ==
    /\ pc[t] = "handler"
    /\ req[t].op = "read"
    /\ res' = [res EXCEPT ![t] =
                  [Response(200, "") EXCEPT !.entries = Enumerate(loc[t].lines),
                                            !.count = Len(Enumerate(loc[t].lines))]]
    /\ pc' = [pc EXCEPT ![t] = "done"]
    /\ UNCHANGED <<files, backups, change_log, now, file_locks, lock_held,
                   lock_mutex, req, loc, ghost, hist>>

\* add_entry, lines 266-270
AddCheck(t) ==
    /\ pc[t] = "handler"
    /\ req[t].op = "add"
    /\ IF InLines(loc[t].value, loc[t].lines)
       THEN Raise(t, 400, "Entry already exists") /\ UNCHANGED loc
       ELSE /\ loc' = [loc EXCEPT ![t].lines = Append(loc[t].lines, loc[t].value)]
            /\ pc' = [pc EXCEPT ![t] = "wr_mutex"]
            /\ UNCHANGED res
    /\ UNCHANGED <<files, backups, change_log, now, file_locks, lock_held,
                   lock_mutex, req, ghost, hist>>

\* A faulty index check: it takes the indices to start at 1.
BadIndexFromOne(index, lines) == index <= 0 \/ index >= Len(lines)

\* index < 0 or index >= len(lines)
BadIndex(index, lines) == index < 0 \/ index >= Len(lines)

\* value in lines and lines.index(value) != index
DuplicateElsewhere(value, lines, index) ==
    InLines(value, lines) /\ IndexOf(value, lines) # index

\* update_entry, lines 293-302
UpdateCheck(t) ==
    LET index == req[t].index
        lines == loc[t].lines
    IN
    /\ pc[t] = "handler"
    /\ req[t].op = "update"
    /\ IF BadIndex(index, lines)
       THEN Raise(t, 400, "Invalid line index") /\ UNCHANGED loc
       ELSE IF DuplicateElsewhere(loc[t].value, lines, index)
       THEN Raise(t, 400, "Entry already exists") /\ UNCHANGED loc
       ELSE /\ loc' = [loc EXCEPT ![t].old_value = lines[index + 1],
                                  ![t].lines = [lines EXCEPT ![index + 1] = loc[t].value]]
            /\ pc' = [pc EXCEPT ![t] = "wr_mutex"]
            /\ UNCHANGED res
    /\ UNCHANGED <<files, backups, change_log, now, file_locks, lock_held,
                   lock_mutex, req, ghost, hist>>

\* delete_entry, lines 323-326
DeleteCheck(t) ==
    LET index == req[t].index
        lines == loc[t].lines
    IN
    /\ pc[t] = "handler"
    /\ req[t].op = "delete"
    /\ IF BadIndex(index, lines)
       THEN Raise(t, 400, "Invalid line index") /\ UNCHANGED loc
       ELSE /\ loc' = [loc EXCEPT ![t].old_value = lines[index + 1],
                                  ![t].lines = RemoveAt(lines, index)]
            /\ pc' = [pc EXCEPT ![t] = "wr_mutex"]
            /\ UNCHANGED res
    /\ UNCHANGED <<files, backups, change_log, now, file_locks, lock_held,
                   lock_mutex, req, ghost, hist>>

\* export_file, lines 343-347, under the lock
ExRead(t) ==
    LET f == files[req[t].filename] IN
    /\ pc[t] = "ex_read"
    /\ res' = [res EXCEPT ![t] =
                  [Response(200, "") EXCEPT !.content =
                      IF f.exists THEN text_read(f.bytes) ELSE <<>>]]
    /\ pc' = [pc EXCEPT ![t] = "ex_release"]
    /\ UNCHANGED <<files, backups, change_log, now, file_locks, lock_held,
                   lock_mutex, req, loc, ghost, hist>>

(***************************************************************************)
(* log_change, and the handler's return.                                   *)
(***************************************************************************)
ARROW == <<SP, "-", ">", SP>>

\* The line log_change writes, as its bracketed fields.
log_entry(timestamp, filename, action, old_value, new_value) ==
    IF old_value # <<>> /\ new_value # <<>>
    THEN <<timestamp, filename, action, old_value \o ARROW \o new_value>>
    ELSE IF old_value # <<>> THEN <<timestamp, filename, action, old_value>>
    ELSE IF new_value # <<>> THEN <<timestamp, filename, action, new_value>>
    ELSE <<timestamp, filename, action>>

\* The action tag and the old and new value each handler logs.
LogArgs(t) ==
    CASE req[t].op = "add" -> <<"ADD", <<>>, loc[t].value>>
      [] req[t].op = "update" -> <<"UPDATE", loc[t].old_value, loc[t].value>>
      [] req[t].op = "delete" -> <<"DELETE", loc[t].old_value, <<>>>>

\* What the handler returns after log_change.
Success(t) ==
    CASE req[t].op = "add" ->
            [Response(200, "") EXCEPT !.index = Len(loc[t].lines) - 1,
                                      !.value = loc[t].value]
      [] req[t].op = "update" ->
            [Response(200, "") EXCEPT !.index = req[t].index,
                                      !.old_value = loc[t].old_value,
                                      !.value = loc[t].value]
      [] req[t].op = "delete" ->
            [Response(200, "") EXCEPT !.old_value = loc[t].old_value]

\* log_change(filename, action, ...), then return {"success": True, ...}
LogChange(t) ==
    /\ pc[t] = "log"
    /\ change_log' = Append(change_log,
          log_entry(now, req[t].filename, LogArgs(t)[1], LogArgs(t)[2], LogArgs(t)[3]))
    /\ res' = [res EXCEPT ![t] = Success(t)]
    /\ ghost' = [ghost EXCEPT ![t].ledger_no = Len(change_log) + 1]
    /\ pc' = [pc EXCEPT ![t] = "done"]
    /\ UNCHANGED <<files, backups, now, file_locks, lock_held, lock_mutex,
                   req, loc, hist>>

(***************************************************************************)
(* log_change step by step: the line is formatted, change.log is opened    *)
(* for appending, locked, written, unlocked and closed.  A line is shorter *)
(* than the buffer of the file object, so f.write leaves it in the buffer  *)
(* and it reaches the file when the with block closes the file.            *)
(***************************************************************************)
\* lines 179-193: the line is formatted and open(CHANGE_LOG, 'a') returns.
LogOpen(t) ==
    /\ pc[t] = "log"
    /\ loc' = [loc EXCEPT ![t].log_entry =
                  log_entry(now, req[t].filename, LogArgs(t)[1], LogArgs(t)[2],
                            LogArgs(t)[3])]
    /\ pc' = [pc EXCEPT ![t] = "log_flock"]
    /\ UNCHANGED <<files, backups, change_log, now, file_locks, lock_held,
                   lock_mutex, req, res, ghost, hist>>

\* fcntl.flock(f.fileno(), fcntl.LOCK_EX) returns when no other open file
\* holds the lock.
LogFlock(t) ==
    /\ pc[t] = "log_flock"
    /\ \A u \in Threads : ~loc[u].flock
    /\ loc' = [loc EXCEPT ![t].flock = TRUE]
    /\ pc' = [pc EXCEPT ![t] = "log_write"]
    /\ UNCHANGED <<files, backups, change_log, now, file_locks, lock_held,
                   lock_mutex, req, res, ghost, hist>>

\* f.write(log_entry): the line goes into the buffer of the file object.
LogWrite(t) ==
    /\ pc[t] = "log_write"
    /\ loc' = [loc EXCEPT ![t].buffer = Append(loc[t].buffer, loc[t].log_entry)]
    /\ pc' = [pc EXCEPT ![t] = "log_unlock"]
    /\ UNCHANGED <<files, backups, change_log, now, file_locks, lock_held,
                   lock_mutex, req, res, ghost, hist>>

\* fcntl.flock(f.fileno(), fcntl.LOCK_UN)
LogUnlock(t) ==
    /\ pc[t] = "log_unlock"
    /\ loc' = [loc EXCEPT ![t].flock = FALSE]
    /\ pc' = [pc EXCEPT ![t] = "log_close"]
    /\ UNCHANGED <<files, backups, change_log, now, file_locks, lock_held,
                   lock_mutex, req, res, ghost, hist>>

\* Leaving the with block closes the file: the buffer is appended to
\* change.log; then return {"success": True, ...}
LogClose(t) ==
    /\ pc[t] = "log_close"
    /\ change_log' = change_log \o loc[t].buffer
    /\ loc' = [loc EXCEPT ![t].buffer = <<>>]
    /\ res' = [res EXCEPT ![t] = Success(t)]
    /\ ghost' = [ghost EXCEPT ![t].ledger_no = Len(change_log) + 1]
    /\ pc' = [pc EXCEPT ![t] = "done"]
    /\ UNCHANGED <<files, backups, now, file_locks, lock_held, lock_mutex,
                   req, hist>>

\* The response reaches the client; the thread is free for the next request.
Return(t) ==
    /\ pc[t] = "done"
    /\ hist' = Append(hist, [req |-> req[t], res |-> res[t],
                             rewrote |-> ghost[t].rewrote])
    /\ pc' = [pc EXCEPT ![t] = "idle"]
    /\ req' = [req EXCEPT ![t] = NoRequest]
    /\ loc' = [loc EXCEPT ![t] = NoLocals]
    /\ res' = [res EXCEPT ![t] = NoResponse]
    /\ ghost' = [ghost EXCEPT ![t] = NoGhost]
    /\ UNCHANGED <<files, backups, change_log, now, file_locks, lock_held, lock_mutex>>

\* datetime.now().strftime(...): the text of the second ts.
DIGITS == <<"0", "1", "2", "3", "4", "5", "6", "7", "8", "9">>
strftime(ts) == <<DIGITS[ts + 1]>>

(***************************************************************************)
(* list_files                                                              *)
(***************************************************************************)
\* The code point of a character of the model's alphabet.
Ord(c) ==
    CASE c = SP -> 32 [] c = "-" -> 45 [] c = "." -> 46 [] c = "/" -> 47
      [] c \in {"0", "1", "2", "3", "4", "5", "6", "7", "8", "9"} ->
            47 + (CHOOSE i \in 1..10 : DIGITS[i] = c)
      [] c = "\\" -> 92 [] c = "_" -> 95 [] c = "a" -> 97 [] c = "b" -> 98
      [] c = "c" -> 99 [] c = "e" -> 101 [] c = "g" -> 103 [] c = "h" -> 104
      [] c = "k" -> 107 [] c = "l" -> 108 [] c = "n" -> 110 [] c = "o" -> 111
      [] c = "t" -> 116 [] c = "x" -> 120

\* s < t for two strings, as sorted() compares the names of one directory.
RECURSIVE LessText(_, _)
LessText(s, t) ==
    IF t = <<>> THEN FALSE
    ELSE IF s = <<>> THEN TRUE
    ELSE IF Head(s) # Head(t) THEN Ord(Head(s)) < Ord(Head(t))
    ELSE LessText(Tail(s), Tail(t))

\* sorted(names)
RECURSIVE sorted(_)
sorted(names) ==
    IF names = {} THEN <<>>
    ELSE LET first == CHOOSE n \in names : \A m \in names \ {n} : LessText(n, m)
         IN <<first>> \o sorted(names \ {first})

\* sub in s
Contains(s, sub) ==
    \E i \in 1..(Len(s) - Len(sub) + 1) : SubSeq(s, i, i + Len(sub) - 1) = sub

\* s.endswith(suffix)
EndsWith(s, suffix) ==
    /\ Len(s) >= Len(suffix)
    /\ SubSeq(s, Len(s) - Len(suffix) + 1, Len(s)) = suffix

DOT_BAK_DOT == <<".", "b", "a", "k", ".">>
DOT_LOCK == <<".", "l", "o", "c", "k">>
CHANGE_LOG == <<"c", "h", "a", "n", "g", "e", ".", "l", "o", "g">>

\* filepath.with_suffix('.txt.bak.<timestamp>'), for a name that ends with
\* '.txt'
backup_name(filename, timestamp) == filename \o DOT_BAK_DOT \o strftime(timestamp)

\* The names of the files BASE_DIR holds.
DirEntries ==
    {n \in Names : files[n].exists}
    \cup {backup_name(b[1], b[2]) : b \in {c \in DOMAIN backups : backups[c].exists}}
    \cup (IF change_log # <<>> THEN {CHANGE_LOG} ELSE {})

\* BASE_DIR.exists(): a directory that holds a file exists; an empty storage
\* root may not have been made yet.
BaseDirExists == IF DirEntries # {} THEN {TRUE} ELSE BOOLEAN

\* list_files, lines 229-238
list_files(base_dir_exists) ==
    IF ~base_dir_exists THEN <<>>
    ELSE sorted({f \in DirEntries :
                    /\ EndsWithTxt(f)
                    /\ ~EndsWith(f, DOT_LOCK)
                    /\ ~Contains(f, DOT_BAK_DOT)
                    /\ f # CHANGE_LOG})

\* GET /api/files
ListCall(t) ==
    /\ pc[t] = "idle"
    /\ req' = [req EXCEPT ![t] = Request("list", <<>>, 0, <<>>)]
    /\ \E base_dir_exists \in BaseDirExists :
          res' = [res EXCEPT ![t] =
                     [Response(200, "") EXCEPT !.files = list_files(base_dir_exists)]]
    /\ pc' = [pc EXCEPT ![t] = "done"]
    /\ UNCHANGED <<files, backups, change_log, now, file_locks, lock_held,
                   lock_mutex, loc, ghost, hist>>

(***************************************************************************)
(* I/O errors.  No handler catches OSError: an error inside create_backup  *)
(* leaves the with file_lock block through its finally clause and ends the *)
(* call; an error inside log_change ends the call after the rewrite.  The  *)
(* framework answers an uncaught exception with status 500.                *)
(***************************************************************************)
InternalError == Response(500, "Internal Server Error")

\* src.read() raises.
CbSrcFail(t) ==
    /\ pc[t] = "cb_src"
    /\ files[req[t].filename].exists
    /\ pc' = [pc EXCEPT ![t] = "cb_raise"]
    /\ ghost' = [ghost EXCEPT ![t].snapshot_failed = TRUE]
    /\ UNCHANGED <<files, backups, change_log, now, file_locks, lock_held,
                   lock_mutex, req, loc, res, hist>>

\* open(backup_path, 'w') raises: no backup file is made.
CbDstOpenFail(t) ==
    /\ pc[t] = "cb_dst_open"
    /\ pc' = [pc EXCEPT ![t] = "cb_raise"]
    /\ ghost' = [ghost EXCEPT ![t].snapshot_failed = TRUE]
    /\ UNCHANGED <<files, backups, change_log, now, file_locks, lock_held,
                   lock_mutex, req, loc, res, hist>>

\* dst.write(content) raises: the backup file holds some part of content.
CbDstWriteFail(t) ==
    /\ pc[t] = "cb_dst_write"
    /\ \E k \in 0..Len(loc[t].content) :
          backups' = [backups EXCEPT ![<<req[t].filename, loc[t].timestamp>>].bytes =
                         SubSeq(loc[t].content, 1, k)]
    /\ pc' = [pc EXCEPT ![t] = "cb_raise"]
    /\ ghost' = [ghost EXCEPT ![t].snapshot_failed = TRUE]
    /\ UNCHANGED <<files, change_log, now, file_locks, lock_held, lock_mutex,
                   req, loc, res, hist>>

\* A faulty handler: it catches the error of create_backup and goes on.
AfterSnapshotErrorIgnored == "rd_exists"

\* Where the call is once the error of create_backup has left the handler.
AfterSnapshotError == "done"

\* finally: lock.release(), and the error leaves create_backup and the
\* handler.
LockReleaseRaise(t) ==
    /\ pc[t] = "cb_raise"
    /\ lock_held' = [lock_held EXCEPT ![loc[t].lock] = 0]
    /\ loc' = [loc EXCEPT ![t].lock = 0]
    /\ res' = [res EXCEPT ![t] = InternalError]
    /\ pc' = [pc EXCEPT ![t] = AfterSnapshotError]
    /\ UNCHANGED <<files, backups, change_log, now, file_locks, lock_mutex,
                   req, ghost, hist>>

\* open(CHANGE_LOG, 'a') or f.write(log_entry) raises: nothing is appended,
\* and the error leaves log_change and the handler.
LogChangeFail(t) ==
    /\ pc[t] = "log"
    /\ res' = [res EXCEPT ![t] = InternalError]
    /\ ghost' = [ghost EXCEPT ![t].log_failed = TRUE]
    /\ pc' = [pc EXCEPT ![t] = "done"]
    /\ UNCHANGED <<files, backups, change_log, now, file_locks, lock_held,
                   lock_mutex, req, loc, hist>>

\* open(filepath, 'r') or f.readlines() raises inside read_file_lines.
RdReadFail(t) ==
    /\ pc[t] = "rd_read"
    /\ files[req[t].filename].exists
    /\ pc' = [pc EXCEPT ![t] = "io_raise"]
    /\ UNCHANGED <<files, backups, change_log, now, file_locks, lock_held,
                   lock_mutex, req, loc, res, ghost, hist>>

\* open(filepath, 'w') raises inside write_file_lines: the file is as it was.
WrOpenFail(t) ==
    /\ pc[t] = "wr_open"
    /\ pc' = [pc EXCEPT ![t] = "io_raise"]
    /\ UNCHANGED <<files, backups, change_log, now, file_locks, lock_held,
                   lock_mutex, req, loc, res, ghost, hist>>

\* f.write(...) raises inside write_file_lines: the file holds some part of
\* the text.
WrWriteFail(t) ==
    /\ pc[t] = "wr_write"
    /\ \E k \in 0..Len(format_lines(loc[t].lines)) :
          files' = [files EXCEPT ![req[t].filename].bytes =
                       SubSeq(format_lines(loc[t].lines), 1, k)]
    /\ pc' = [pc EXCEPT ![t] = "io_raise"]
    /\ UNCHANGED <<backups, change_log, now, file_locks, lock_held, lock_mutex,
                   req, loc, res, ghost, hist>>

\* open(filepath, 'r') or f.read() raises inside export_file.
ExReadFail(t) ==
    /\ pc[t] = "ex_read"
    /\ files[req[t].filename].exists
    /\ pc' = [pc EXCEPT ![t] = "io_raise"]
    /\ UNCHANGED <<files, backups, change_log, now, file_locks, lock_held,
                   lock_mutex, req, loc, res, ghost, hist>>

\* A faulty file_lock without the finally clause: the error leaves the block
\* and the lock stays held.
LockReleaseErrorKept(t) ==
    /\ pc[t] = "io_raise"
    /\ loc' = [loc EXCEPT ![t].lock = 0]
    /\ res' = [res EXCEPT ![t] = InternalError]
    /\ pc' = [pc EXCEPT ![t] = "done"]
    /\ UNCHANGED <<files, backups, change_log, now, file_locks, lock_mutex,
                   lock_held, req, ghost, hist>>

\* finally: lock.release(), and the error leaves the function and the
\* handler.
LockReleaseError(t) ==
    /\ pc[t] = "io_raise"
    /\ lock_held' = [lock_held EXCEPT ![loc[t].lock] = 0]
    /\ loc' = [loc EXCEPT ![t].lock = 0]
    /\ res' = [res EXCEPT ![t] = InternalError]
    /\ pc' = [pc EXCEPT ![t] = "done"]
    /\ UNCHANGED <<files, backups, change_log, now, file_locks, lock_mutex,
                   req, ghost, hist>>

\* One step of thread t inside a with file_lock(...) block that an I/O error
\* ends, and the exit from the block.
FailLocked(t) ==
    \/ CbSrcFail(t) \/ CbDstOpenFail(t) \/ CbDstWriteFail(t)
    \/ LockReleaseRaise(t)
    \/ RdReadFail(t) \/ WrOpenFail(t) \/ WrWriteFail(t) \/ ExReadFail(t)
    \/ LockReleaseError(t)

\* One step of thread t that an I/O error ends.
Fail(t) ==
    \/ CbSrcFail(t) \/ CbDstOpenFail(t) \/ CbDstWriteFail(t)
    \/ LockReleaseRaise(t)
    \/ LogChangeFail(t)

(***************************************************************************)
(* Specifications.                                                         *)
(***************************************************************************)
\* One step of thread t inside a call.
Step(t) ==
    \/ CbExists(t) \/ CbSrc(t) \/ CbDstOpen(t) \/ CbDstWrite(t)
    \/ GetFileLockEnter(t) \/ GetFileLockBody(t) \/ LockAcquire(t) \/ LockRelease(t)
    \/ RdExists(t) \/ RdRead(t)
    \/ ReadReturn(t) \/ AddCheck(t) \/ UpdateCheck(t) \/ DeleteCheck(t)
    \/ WrOpen(t) \/ WrWrite(t)
    \/ ExRead(t)
    \/ LogChange(t)
    \/ Return(t)

\* A request arrives at thread t.
Call(t, r) ==
    \/ AddCall(t, r) \/ UpdateCall(t, r) \/ DeleteCall(t, r)
    \/ ReadCall(t, r) \/ ExportCall(t, r)

\* NThreads threads serve requests on one list concurrently.
Next ==
    \/ Tick
    \/ \E t \in Threads : Step(t)
    \/ \E t \in Threads : \E r \in ConcRequests :
          CallsStarted < MaxCalls /\ Call(t, r)

Spec == Init /\ [][Next]_vars

\* One thread serves one request after the other.
NextSeq ==
    \/ Tick
    \/ Step(1)
    \/ \E r \in SeqRequests : CallsStarted < MaxCalls /\ Call(1, r)

SpecSeq == Init /\ [][NextSeq]_vars

\* One step of thread t inside a call, log_change taken step by step.
StepLog(t) ==
    \/ CbExists(t) \/ CbSrc(t) \/ CbDstOpen(t) \/ CbDstWrite(t)
    \/ GetFileLockEnter(t) \/ GetFileLockBody(t) \/ LockAcquire(t) \/ LockRelease(t)
    \/ RdExists(t) \/ RdRead(t)
    \/ ReadReturn(t) \/ AddCheck(t) \/ UpdateCheck(t) \/ DeleteCheck(t)
    \/ WrOpen(t) \/ WrWrite(t)
    \/ ExRead(t)
    \/ LogOpen(t) \/ LogFlock(t) \/ LogWrite(t) \/ LogUnlock(t) \/ LogClose(t)
    \/ Return(t)

\* NThreads threads serve a few requests that arrive within one second, the
\* steps of log_change interleaved.
NextLog ==
    \/ \E t \in Threads : StepLog(t)
    \/ \E t \in Threads : \E r \in PairRequests :
          CallsStarted < LogCalls /\ Call(t, r)

SpecLog == Init /\ [][NextLog]_vars

\* NThreads threads serve a few requests that arrive within one second.
NextPair ==
    \/ \E t \in Threads : Step(t)
    \/ \E t \in Threads : \E r \in PairRequests :
          CallsStarted < PairCalls /\ Call(t, r)

SpecPair == Init /\ [][NextPair]_vars

\* Requests on two lists.
TwoRequests ==
    { Request("add", A_TXT, 0, <<"a">>), Request("add", B_TXT, 0, <<"a">>),
      Request("update", A_TXT, 0, <<"b">>), Request("delete", A_TXT, 0, <<>>),
      Request("read", A_TXT, 0, <<>>), Request("export", B_TXT, 0, <<>>) }

\* NThreads threads serve a few requests on two lists that arrive within one
\* second.
NextTwo ==
    \/ \E t \in Threads : Step(t)
    \/ \E t \in Threads : \E r \in TwoRequests :
          CallsStarted < TwoCalls /\ Call(t, r)

SpecTwo == Init /\ [][NextTwo]_vars

\* The same under fair scheduling: a thread that can take a step of its call
\* is not left waiting for ever.  Requests arrive as they like.
SpecTwoFair == SpecTwo /\ \A t \in Threads : WF_vars(Step(t))

\* What the storage root can hold when the process starts: no list file, or
\* a list file as write_file_lines left it, and the change log of earlier
\* runs.
StoredLines ==
    { <<>>, << <<"a">> >>, << <<"a">>, <<"b">> >>,
      << <<"a", NL, NL, "a">> >>, << <<"a", CR, "b">> >> }
StoredFiles ==
    {NoFile} \cup {[exists |-> TRUE, bytes |-> format_lines(l)] : l \in StoredLines}
StoredLogs == {<<>>, <<log_entry(1, A_TXT, "ADD", <<>>, <<"a">>)>>}

InitStored ==
    /\ files \in [Names -> StoredFiles]
    /\ \A n \in Names \ ListFiles : files[n] = NoFile
    /\ backups = [b \in Names \X Times |-> NoFile]
    /\ change_log \in StoredLogs
    /\ now = 1
    /\ file_locks = [n \in Names |-> 0]
    /\ lock_held = <<>>
    /\ lock_mutex = 0
    /\ pc = [t \in Threads |-> "idle"]
    /\ req = [t \in Threads |-> NoRequest]
    /\ loc = [t \in Threads |-> NoLocals]
    /\ res = [t \in Threads |-> NoResponse]
    /\ ghost = [t \in Threads |-> NoGhost]
    /\ hist = <<>>

\* Requests with names that are not valid, next to those of SeqRequests.
OneRequests ==
    SeqRequests
    \cup {Request(op, n, 0, <<"a">>) :
             op \in {"add", "update", "delete", "read", "export"}, n \in BadNames}

\* One thread serves one request after the other, within one second.
NextOne ==
    \/ Step(1)
    \/ \E r \in OneRequests : CallsStarted < OneCalls /\ Call(1, r)

SpecOne == InitStored /\ [][NextOne]_vars

\* One thread serves one request after the other, and its disk can fail.
NextFail ==
    \/ Step(1)
    \/ Fail(1)
    \/ \E r \in PairRequests : CallsStarted < FailCalls /\ Call(1, r)

SpecFail == InitStored /\ [][NextFail]_vars

\* One thread serves one request after the other, and every file operation
\* inside a locked section can fail.
NextLocked ==
    \/ Step(1)
    \/ FailLocked(1)
    \/ \E r \in PairRequests : CallsStarted < FailCalls /\ Call(1, r)

SpecLocked == InitStored /\ [][NextLocked]_vars

\* Requests on three lists, one of them named "a.bak.txt".
ListRequests ==
    {Request("add", n, 0, v) : n \in {A_TXT, A_BAK_TXT, B_TXT}, v \in ConcValues}
    \cup { Request("update", A_TXT, 0, <<"b">>), Request("delete", A_TXT, 0, <<>>),
           Request("read", A_TXT, 0, <<>>), Request("export", A_TXT, 0, <<>>) }

\* One thread serves requests on several lists and requests for the names
\* of the lists.
NextList ==
    \/ Tick
    \/ Step(1)
    \/ CallsStarted < ListCalls /\ ListCall(1)
    \/ \E r \in ListRequests : CallsStarted < ListCalls /\ Call(1, r)

SpecList == Init /\ [][NextList]_vars

\* The same on a storage root that holds no list file at the start.
SpecFailAbsent == Init /\ [][NextFail]_vars

(***************************************************************************)
(* Each handler run alone, from its first line to its return, on the file  *)
(* system fs: the files it leaves and the response it gives.               *)
(***************************************************************************)
\* read_file_lines(filepath) with no other thread running
Lines(file) == IF file.exists THEN parse_lines(file.bytes) ELSE <<>>

\* The file write_file_lines(filepath, lines) leaves.
Written(lines) == [exists |-> TRUE, bytes |-> format_lines(lines)]

Outcome(fs, response) == [fs |-> fs, res |-> response]

SerialAdd(fs, r) ==
    LET value == validate_entry(r.value)
        lines == Lines(fs[r.filename])
    IN
    IF validate_filename(r.filename) # ""
    THEN Outcome(fs, Response(400, validate_filename(r.filename)))
    ELSE IF value = <<>>
    THEN Outcome(fs, Response(400, "Empty entries are not allowed"))
    ELSE IF InLines(value, lines)
    THEN Outcome(fs, Response(400, "Entry already exists"))
    ELSE Outcome([fs EXCEPT ![r.filename] = Written(Append(lines, value))],
                 [Response(200, "") EXCEPT !.index = Len(lines), !.value = value])

SerialUpdate(fs, r) ==
    LET value == validate_entry(r.value)
        lines == Lines(fs[r.filename])
    IN
    IF validate_filename(r.filename) # ""
    THEN Outcome(fs, Response(400, validate_filename(r.filename)))
    ELSE IF ~fs[r.filename].exists
    THEN Outcome(fs, Response(404, "File not found"))
    ELSE IF value = <<>>
    THEN Outcome(fs, Response(400, "Empty entries are not allowed"))
    ELSE IF BadIndex(r.index, lines)
    THEN Outcome(fs, Response(400, "Invalid line index"))
    ELSE IF DuplicateElsewhere(value, lines, r.index)
    THEN Outcome(fs, Response(400, "Entry already exists"))
    ELSE Outcome([fs EXCEPT ![r.filename] =
                     Written([lines EXCEPT ![r.index + 1] = value])],
                 [Response(200, "") EXCEPT !.index = r.index,
                                           !.old_value = lines[r.index + 1],
                                           !.value = value])

SerialDelete(fs, r) ==
    LET lines == Lines(fs[r.filename]) IN
    IF validate_filename(r.filename) # ""
    THEN Outcome(fs, Response(400, validate_filename(r.filename)))
    ELSE IF ~fs[r.filename].exists
    THEN Outcome(fs, Response(404, "File not found"))
    ELSE IF BadIndex(r.index, lines)
    THEN Outcome(fs, Response(400, "Invalid line index"))
    ELSE Outcome([fs EXCEPT ![r.filename] = Written(RemoveAt(lines, r.index))],
                 [Response(200, "") EXCEPT !.old_value = lines[r.index + 1]])

SerialRead(fs, r) ==
    IF validate_filename(r.filename) # ""
    THEN Outcome(fs, Response(400, validate_filename(r.filename)))
    ELSE IF ~fs[r.filename].exists
    THEN Outcome(fs, Response(404, "File not found"))
    ELSE Outcome(fs, [Response(200, "") EXCEPT
                         !.entries = Enumerate(Lines(fs[r.filename])),
                         !.count = Len(Lines(fs[r.filename]))])

SerialExport(fs, r) ==
    IF validate_filename(r.filename) # ""
    THEN Outcome(fs, Response(400, validate_filename(r.filename)))
    ELSE IF ~fs[r.filename].exists
    THEN Outcome(fs, Response(404, "File not found"))
    ELSE Outcome(fs, [Response(200, "") EXCEPT
                         !.content = text_read(fs[r.filename].bytes)])

Serial(fs, r) ==
    CASE r.op = "add" -> SerialAdd(fs, r)
      [] r.op = "update" -> SerialUpdate(fs, r)
      [] r.op = "delete" -> SerialDelete(fs, r)
      [] r.op = "read" -> SerialRead(fs, r)
      [] r.op = "export" -> SerialExport(fs, r)

(***************************************************************************)
(* Vocabulary of the properties.                                           *)
(***************************************************************************)
AllIdle == \A t \in Threads : pc[t] = "idle"

Mutations == {"add", "update", "delete"}

\* The call of thread t has returned a success to its handler's caller.
Succeeded(t) == pc[t] = "done" /\ res[t].status = 200

\* The lines of the bytes of a file as "\n" ends them, the text after the
\* last "\n" being a line only if it is not empty.
RECURSIVE SplitNL(_)
SplitNL(bytes) ==
    IF bytes = <<>> THEN <<>>
    ELSE LET i == FirstNL(bytes) IN
         IF i = 0 THEN <<bytes>>
         ELSE <<SubSeq(bytes, 1, i - 1)>> \o SplitNL(SubSeq(bytes, i + 1, Len(bytes)))

NonBlankCount(bytes) ==
    Cardinality({i \in 1..Len(SplitNL(bytes)) : NonBlank(SplitNL(bytes)[i])})

NoDuplicates(lines) ==
    \A i, j \in 1..Len(lines) : lines[i] = lines[j] => i = j

\* Thread t is inside a with file_lock(...) block for list n: it has
\* acquired the lock it was handed for n and has not released it.
InLock ==
    {"cb_src", "cb_dst_open", "cb_dst_write", "cb_release", "cb_raise",
     "io_raise", "rd_read", "rd_release",
     "wr_open", "wr_write", "wr_release", "ex_read", "ex_release"}

HoldsLockFor(t, n) == pc[t] \in InLock /\ req[t].filename = n

\* hist, called in the order calls, is a serial execution from fs that ends
\* with the files as they are now and gives each call the response it got.
RECURSIVE IsSerial(_, _)
IsSerial(fs, calls) ==
    IF calls = <<>> THEN fs = files
    ELSE /\ Serial(fs, Head(calls).req).res = Head(calls).res
         /\ IsSerial(Serial(fs, Head(calls).req).fs, Tail(calls))

Reordered(p) == [i \in 1..Len(hist) |-> hist[p[i]]]

ActionText(action) ==
    CASE action = "ADD" -> <<"A", "D", "D">>
      [] action = "UPDATE" -> <<"U", "P", "D", "A", "T", "E">>
      [] action = "DELETE" -> <<"D", "E", "L", "E", "T", "E">>

\* The text f.write(log_entry) appends to change.log for the fields entry:
\* "[timestamp] [filename] [action] [payload]\n".
log_text(entry) ==
    <<"[">> \o strftime(entry[1]) \o <<"]", SP, "[">> \o entry[2]
    \o <<"]", SP, "[">> \o ActionText(entry[3]) \o <<"]">>
    \o (IF Len(entry) = 4 THEN <<SP, "[">> \o entry[4] \o <<"]">> ELSE <<>>)
    \o <<NL>>

\* The payload a ledger line has to carry for the call of thread t, from the
\* values the call returned.
Payload(t) ==
    CASE req[t].op = "add" -> res[t].value
      [] req[t].op = "update" -> res[t].old_value \o ARROW \o res[t].value
      [] req[t].op = "delete" -> res[t].old_value

Tag(op) ==
    CASE op = "add" -> "ADD" [] op = "update" -> "UPDATE" [] op = "delete" -> "DELETE"

(***************************************************************************)
(* The claims.                                                             *)
(***************************************************************************)
\* C1: operations on one list are atomic with respect to each other: once
\* all calls have returned, the files and every call's response are those of
\* some serial execution of the same calls on the initially empty storage.
C1_Serializable ==
    AllIdle =>
        \E p \in Permutations(1..Len(hist)) :
            IsSerial([n \in Names |-> NoFile], Reordered(p))

\* C2: no lost update: when two adds of distinct values to the initially
\* absent list have both returned success, the list holds both values, has
\* length 2, and the two calls returned different indices.
C2_NoLostUpdate ==
    ( /\ AllIdle
      /\ Len(hist) = 2
      /\ \A i \in 1..2 : hist[i].req.op = "add" /\ hist[i].res.status = 200
      /\ hist[1].req.filename = hist[2].req.filename
      /\ hist[1].res.value # hist[2].res.value )
    => LET lines == Lines(files[hist[1].req.filename]) IN
       /\ InLines(hist[1].res.value, lines)
       /\ InLines(hist[2].res.value, lines)
       /\ Len(lines) = 2
       /\ hist[1].res.index # hist[2].res.index

\* C3: uniqueness invariant: a list that started absent and is changed only
\* through add/update/delete never holds two equal entries, an empty entry
\* or a blank line.
C3_Unique ==
    \A n \in ListFiles :
        /\ NoDuplicates(Lines(files[n]))
        /\ \A i \in 1..Len(Lines(files[n])) : strip(Lines(files[n])[i]) # <<>>
        /\ \A i \in 1..Len(SplitNL(files[n].bytes)) : NonBlank(SplitNL(files[n].bytes)[i])

\* C4: at most one thread at a time is inside a locked section of a given
\* list file, where the file's content is read or written.
C4_MutualExclusion ==
    \A n \in ListFiles : \A t1, t2 \in Threads :
        HoldsLockFor(t1, n) /\ HoldsLockFor(t2, n) => t1 = t2

\* C4's case: a thread is inside the locked section of a list while another
\* thread waits to acquire the same list's lock.
C4_Witness ==
    \E t1, t2 \in Threads :
        /\ t1 # t2
        /\ HoldsLockFor(t1, req[t1].filename)
        /\ pc[t2] \in AtAcquire
        /\ req[t2].filename = req[t1].filename
        /\ loc[t2].lock = loc[t1].lock

\* C5: with no concurrent call, add of a trimmed value already in the list
\* fails with "Entry already exists" and leaves the file as it was; add of a
\* valid value not in the list succeeds, the list is one longer, the value is
\* last, and the returned index is the length before the call.
C5_Add ==
    \A t \in Threads :
        ( /\ pc[t] = "done"
          /\ req[t].op = "add"
          /\ validate_filename(req[t].filename) = ""
          /\ strip(req[t].value) # <<>> )
        => LET old == Lines(ghost[t].start)
               new == Lines(files[req[t].filename])
               value == strip(req[t].value)
           IN
           IF InLines(value, old)
           THEN /\ res[t] = Response(400, "Entry already exists")
                /\ files[req[t].filename] = ghost[t].start
           ELSE /\ res[t].status = 200
                /\ Len(new) = Len(old) + 1
                /\ new[Len(new)] = value
                /\ res[t].index = Len(old)

\* C6: after a successful update(n, i, v) a read shows index i holding the
\* trimmed v, every other index holding what it held, and the same length;
\* the call returned the value that was at i.
C6_Update ==
    \A t \in Threads :
        (Succeeded(t) /\ req[t].op = "update")
        => LET old == Lines(ghost[t].start)
               new == Lines(files[req[t].filename])
               i == req[t].index + 1
           IN
           /\ Len(new) = Len(old)
           /\ i \in 1..Len(new)
           /\ new[i] = strip(req[t].value)
           /\ \A j \in 1..Len(new) : j # i => new[j] = old[j]
           /\ res[t].old_value = old[i]

\* C7: after a successful delete(n, i) a read shows the list one shorter,
\* every entry formerly after i moved down by one, every entry formerly
\* before i in place, and the value formerly at i absent; the call returned
\* that value.
C7_Delete ==
    \A t \in Threads :
        (Succeeded(t) /\ req[t].op = "delete")
        => LET old == Lines(ghost[t].start)
               new == Lines(files[req[t].filename])
               i == req[t].index + 1
           IN
           /\ i \in 1..Len(old)
           /\ Len(new) = Len(old) - 1
           /\ \A j \in 1..Len(new) : new[j] = IF j < i THEN old[j] ELSE old[j + 1]
           /\ ~InLines(old[i], new)
           /\ res[t].old_value = old[i]

\* C8: a read returns entries whose indices are 0..len-1 in file order, and
\* the number of non-blank lines of the persisted file equals len.
C8_Read ==
    \A t \in Threads :
        (Succeeded(t) /\ req[t].op = "read")
        => /\ res[t].count = Len(res[t].entries)
           /\ \A i \in 1..Len(res[t].entries) : res[t].entries[i].index = i - 1
           /\ NonBlankCount(files[req[t].filename].bytes) = res[t].count

\* C9: in every mutation of a list that existed when the call began, the
\* backup has been written completely, and is on disk, when the rewrite of
\* the list file begins and from then on.
C9_SnapshotFirst ==
    \A t \in Threads :
        (ghost[t].start.exists /\ (pc[t] = "wr_open" \/ ghost[t].rewrote))
        => /\ ghost[t].snapshot
           /\ backups[<<req[t].filename, loc[t].timestamp>>].exists

\* C9's case: a mutation of an existing list has begun its rewrite.
C9_Witness ==
    \E t \in Threads :
        /\ ghost[t].start.exists
        /\ ghost[t].rewrote
        /\ ghost[t].snapshot
        /\ req[t].op \in Mutations

\* C10: after a successful mutation of a list that existed, some backup
\* file holds the content the list file had just before the mutation's
\* rewrite.
C10_BackupOfPrevious ==
    \A t \in Threads :
        (Succeeded(t) /\ req[t].op \in Mutations /\ ghost[t].start.exists)
        => \E ts \in Times :
              /\ backups[<<req[t].filename, ts>>].exists
              /\ backups[<<req[t].filename, ts>>].bytes = ghost[t].before.bytes

\* C11: fail-closed snapshot: once an I/O error has ended create_backup, the
\* call goes no further than releasing the lock and returning: the list file
\* is as it was when the call began and is never rewritten by the call, the
\* change log is as it was, and the caller gets an error response.
C11_FailClosed ==
    \A t \in Threads :
        ghost[t].snapshot_failed
        => /\ pc[t] \in {"cb_raise", "done"}
           /\ ~ghost[t].rewrote
           /\ files[req[t].filename] = ghost[t].start
           /\ change_log = ghost[t].log_start
           /\ pc[t] = "done" => res[t].status = 500

\* C11's case: the backup of an existing list failed and the mutation has
\* returned its error.
C11_Witness ==
    \E t \in Threads :
        /\ ghost[t].snapshot_failed
        /\ ghost[t].start.exists
        /\ req[t].op \in Mutations
        /\ pc[t] = "done"
        /\ res[t].status = 500

\* C12: every successful mutation appends exactly one ledger line, after the
\* lines that were there, carrying the call's list name, its action tag and
\* its payload; a mutation that fails appends nothing.
C12_OneLedgerLine ==
    \A t \in Threads :
        (pc[t] = "done" /\ req[t].op \in Mutations)
        => IF res[t].status = 200
           THEN /\ Len(change_log) = Len(ghost[t].log_start) + 1
                /\ SubSeq(change_log, 1, Len(ghost[t].log_start)) = ghost[t].log_start
                /\ LET e == change_log[Len(change_log)] IN
                     /\ e[2] = req[t].filename
                     /\ e[3] = Tag(req[t].op)
                     /\ e[4] = Payload(t)
                     /\ Len(SplitNL(log_text(e))) = 1
           ELSE change_log = ghost[t].log_start

\* C13: a call whose log_change failed after the list file was rewritten
\* still reports success, and the rewritten file stands.
C13_LogFailureStillSuccess ==
    \A t \in Threads :
        (ghost[t].log_failed /\ pc[t] = "done")
        => /\ res[t].status = 200
           /\ ghost[t].rewrote
           /\ files[req[t].filename] = Written(loc[t].lines)

\* The details of the errors validate_filename raises (InvalidName).
InvalidName ==
    {"Only .txt files are allowed", "Invalid filename",
     "Invalid filename characters", "Invalid file path"}

\* C14: a call with a name that has a path separator, a '..' segment, a
\* character outside the allow-list or no '.txt' suffix is rejected with
\* InvalidName in its first step: no list file, backup file, ledger line or
\* lock-table entry is created or changed.
C14_InvalidNameRejected ==
    [][ \A t \in Threads :
          (pc[t] = "idle" /\ pc'[t] # "idle" /\ req'[t].filename \in BadNames)
          => /\ pc'[t] = "done"
             /\ res'[t].status = 400
             /\ res'[t].detail \in InvalidName
             /\ UNCHANGED <<files, backups, change_log, file_locks, lock_held>>
      ]_vars

\* C14's case: a call with such a name has been rejected.
C14_Witness ==
    \E t \in Threads :
        /\ pc[t] = "done"
        /\ req[t].filename \in BadNames
        /\ req[t].op = "add"
        /\ res[t].detail \in InvalidName

\* C15: add or update with a value that is empty after trimming fails with
\* "Empty entries are not allowed" and has no effect: the list file is as it
\* was (and not created), no backup is written, no ledger line is appended.
C15_EmptyEntry ==
    \A t \in Threads :
        ( /\ pc[t] = "done"
          /\ req[t].op \in {"add", "update"}
          /\ req[t].filename \in ListFiles
          /\ strip(req[t].value) = <<>> )
        => /\ res[t] = Response(400, "Empty entries are not allowed")
           /\ files[req[t].filename] = ghost[t].start
           /\ ~ghost[t].snapshot
           /\ change_log = ghost[t].log_start

\* C16: a mutation that fails with "Entry already exists", "Invalid line
\* index" or "File not found" leaves every list file as it was before the
\* call and appends no ledger line.
C16_FailedMutationNoChange ==
    \A t \in Threads :
        ( /\ pc[t] = "done"
          /\ req[t].op \in Mutations
          /\ res[t].detail \in
                {"Entry already exists", "Invalid line index", "File not found"} )
        => /\ files[req[t].filename] = ghost[t].start
           /\ ~ghost[t].rewrote
           /\ change_log = ghost[t].log_start

\* C16's case: an update of an existing list has failed after the list was
\* read.
C16_Witness ==
    \E t \in Threads :
        /\ pc[t] = "done"
        /\ req[t].op = "update"
        /\ res[t].detail \in {"Entry already exists", "Invalid line index"}
        /\ Len(Lines(ghost[t].start)) > 0

\* C17: read, update and delete on a list whose file does not exist fail
\* with "File not found" (404) and do not create the file.
C17_NotFound ==
    \A t \in Threads :
        ( /\ pc[t] = "done"
          /\ req[t].op \in {"read", "update", "delete"}
          /\ req[t].filename \in ListFiles
          /\ ~ghost[t].start.exists )
        => /\ res[t] = Response(404, "File not found")
           /\ ~files[req[t].filename].exists

\* C17's case: an update of a list that does not exist has returned.
C17_Witness ==
    \E t \in Threads :
        /\ pc[t] = "done"
        /\ req[t].op = "update"
        /\ req[t].filename \in ListFiles
        /\ ~ghost[t].start.exists

\* C18 as stated: update and delete on an existing list fail with "Invalid
\* line index" exactly when the index is negative or at least the list's
\* length.
C18_IndexOutOfRange ==
    \A t \in Threads :
        ( /\ pc[t] = "done"
          /\ req[t].op \in {"update", "delete"}
          /\ req[t].filename \in ListFiles
          /\ ghost[t].start.exists )
        => ( res[t].detail = "Invalid line index"
             <=> (req[t].index < 0 \/ req[t].index >= Len(Lines(ghost[t].start))) )

\* C18 as amended: delete, and update with a value that is not empty after
\* trimming, on an existing list fail with "Invalid line index" exactly when
\* the index is negative or at least the list's length; an update with an
\* empty value fails with "Empty entries are not allowed" whatever the index.
C18_IndexCheck ==
    \A t \in Threads :
        ( /\ pc[t] = "done"
          /\ req[t].op \in {"update", "delete"}
          /\ req[t].filename \in ListFiles
          /\ ghost[t].start.exists )
        => IF req[t].op = "update" /\ strip(req[t].value) = <<>>
           THEN res[t].detail = "Empty entries are not allowed"
           ELSE ( res[t].detail = "Invalid line index"
                  <=> (req[t].index < 0 \/ req[t].index >= Len(Lines(ghost[t].start))) )

\* C18's case: index 0 on an existing list without entries is out of range.
C18_Witness ==
    \E t \in Threads :
        /\ pc[t] = "done"
        /\ req[t].op \in {"update", "delete"}
        /\ ghost[t].start.exists
        /\ Lines(ghost[t].start) = <<>>
        /\ req[t].index = 0
        /\ res[t].detail = "Invalid line index"

\* C19: export returns the exact current content of the list file, with no
\* line filtered, trimmed or changed.
C19_ExportVerbatim ==
    \A t \in Threads :
        (Succeeded(t) /\ req[t].op = "export")
        => res[t].content = files[req[t].filename].bytes

\* C20: export of a valid name whose list file does not exist is a success
\* with empty content.
C20_ExportAbsent ==
    \A t \in Threads :
        ( /\ pc[t] = "done"
          /\ req[t].op = "export"
          /\ req[t].filename \in ListFiles
          /\ ~ghost[t].start.exists )
        => /\ res[t].status = 200
           /\ res[t].content = <<>>

\* The values of the entries get_file_entries returns.
Values(entries) == [i \in 1..Len(entries) |-> entries[i].value]

\* What a read of the list of request r returns on the files as they are.
ReadNow(r) == Serial(files, [r EXCEPT !.op = "read"]).res

\* C21: round trip: the content export returns, split on newline and
\* filtered for non-blank lines, is the sequence of values read returns for
\* the same file, in the same order.
C21_RoundTrip ==
    \A t \in Threads :
        (Succeeded(t) /\ req[t].op = "export")
        => /\ ReadNow(req[t]).status = 200
           /\ SelectSeq(SplitNL(res[t].content), NonBlank)
                 = Values(ReadNow(req[t]).entries)

\* C21's case: an export of a list that add or update left with more than
\* one line, one of them blank.
C21_Witness ==
    \E t \in Threads :
        /\ Succeeded(t)
        /\ req[t].op = "export"
        /\ \E i \in 1..Len(SplitNL(res[t].content)) : ~NonBlank(SplitNL(res[t].content)[i])
        /\ Len(ReadNow(req[t]).entries) = 2

\* C22: after every successful mutation the content of the list file is the
\* list's entries joined by newline, with one trailing newline when there is
\* an entry and nothing when there is none.
C22_FileFormat ==
    \A t \in Threads :
        (Succeeded(t) /\ req[t].op \in Mutations)
        => LET entries == Values(ReadNow(req[t]).entries) IN
           files[req[t].filename].bytes =
              IF entries = <<>> THEN <<>> ELSE join(entries) \o <<NL>>

\* C23: a list file exists only if a successful add made it, it never stops
\* existing, and a read of an existing list without entries returns the
\* empty sequence.
C23_ListLifeCycle ==
    /\ \A n \in Names :
          (files[n].exists /\ AllIdle)
          => \E i \in 1..Len(hist) :
                /\ hist[i].req.op = "add"
                /\ hist[i].req.filename = n
                /\ hist[i].res.status = 200
    /\ \A t \in Threads :
          (pc[t] # "idle" /\ ghost[t].start.exists) => files[req[t].filename].exists
    /\ \A t \in Threads :
          (pc[t] = "done" /\ req[t].op = "read" /\ ghost[t].start.exists
              /\ ghost[t].start.bytes = <<>>)
          => res[t].status = 200 /\ res[t].entries = <<>>

\* C24: list_files returns exactly the names of the list files that exist in
\* the storage root, in ascending order, and no name of a backup file or of
\* the ledger file.
C24_ListLists ==
    \A t \in Threads :
        (pc[t] = "done" /\ req[t].op = "list")
        => LET names == res[t].files IN
           /\ {names[i] : i \in 1..Len(names)} = {n \in Names : files[n].exists}
           /\ \A i, j \in 1..Len(names) : i < j => LessText(names[i], names[j])

\* C25: create_backup opens a backup file for writing only while its list
\* file exists and only under a name no backup file has yet, so that a
\* backup file that has been written is never overwritten, also not by a
\* later mutation of the same list within the same clock second.
C25_BackupsImmutable ==
    \A t \in Threads :
        pc[t] = "cb_dst_open"
        => /\ files[req[t].filename].exists
           /\ ~backups[<<req[t].filename, loc[t].timestamp>>].exists

\* C26: a thread that waits for the lock of a list waits only for a thread
\* that holds the lock of that same list, threads working on different lists
\* use different locks, and the registry mutex is held only by a thread that
\* is looking up or creating a handle, never by a thread that waits for a
\* file lock or reads or writes a file.
C26_NoCrossBlocking ==
    /\ \A t \in Threads :
          (pc[t] \in AtAcquire /\ lock_held[loc[t].lock] # 0)
          => req[lock_held[loc[t].lock]].filename = req[t].filename
    /\ \A t, u \in Threads :
          (loc[t].lock # 0 /\ loc[u].lock # 0 /\ req[t].filename # req[u].filename)
          => loc[t].lock # loc[u].lock
    /\ lock_mutex # 0 => pc[lock_mutex] \in AtLookup
    /\ \A t \in Threads : pc[t] \in AtAcquire \cup InLock => lock_mutex # t

\* C26's case: two threads are inside the locked sections of two different
\* lists at the same time, each writing its list file.
C26_Witness ==
    \E t, u \in Threads :
        /\ req[t].filename # req[u].filename
        /\ pc[t] = "wr_write" /\ pc[u] \in InLock
        /\ lock_held[loc[t].lock] = t /\ lock_held[loc[u].lock] = u

\* C27: while a mutation is between its read of the entries and its rewrite
\* of the list file, no other thread is inside a locked section of the same
\* list: the mutation keeps the list's lock from its read to its rewrite.
C27_LockHeldThroughout ==
    \A t, u \in Threads :
        ( /\ t # u
          /\ req[t].op \in Mutations
          /\ pc[t] \in {"handler", "wr_mutex", "wr_lookup", "wr_acquire"} )
        => ~HoldsLockFor(u, req[t].filename)

\* C28: the registry holds at most one handle per path and as many locks
\* were ever created as there are paths with a handle (no handle was
\* replaced or removed), two paths never share a handle, and every thread
\* that got a handle for a path got the one the registry holds for it.
C28_OneHandlePerPath ==
    /\ Len(lock_held) = Cardinality({n \in Names : file_locks[n] # 0})
    /\ \A n \in Names : file_locks[n] \in 0..Len(lock_held)
    /\ \A n, m \in Names :
          (file_locks[n] # 0 /\ file_locks[n] = file_locks[m]) => n = m
    /\ \A t \in Threads :
          loc[t].lock # 0 => loc[t].lock = file_locks[req[t].filename]

\* C28's case: two threads whose calls were the first for a path, which had
\* no handle, have both received the one handle that was created for it.
C28_Witness ==
    \E t, u \in Threads :
        /\ t # u
        /\ hist = <<>>
        /\ req[t].filename = req[u].filename
        /\ loc[t].lock # 0
        /\ loc[t].lock = loc[u].lock
        /\ Len(lock_held) = 1

\* C29: while a read or an export reads the list file no other thread is
\* between emptying and writing that file, and what the reader has read is
\* the whole content the file has: it never sees a partially written file.
C29_NoPartialRead ==
    \A t \in Threads :
        LET f == files[req[t].filename] IN
        /\ (req[t].op \in {"read", "export"}
              /\ pc[t] \in {"rd_read", "rd_release", "ex_read", "ex_release"})
           => \A u \in Threads \ {t} :
                 ~(pc[u] = "wr_write" /\ req[u].filename = req[t].filename)
        /\ (req[t].op = "read" /\ pc[t] = "rd_release")
           => loc[t].lines = IF f.exists THEN parse_lines(f.bytes) ELSE <<>>
        /\ (req[t].op = "export" /\ pc[t] = "ex_release")
           => res[t].content = IF f.exists THEN text_read(f.bytes) ELSE <<>>

\* C29's case: a read or an export was called while a concurrent mutation
\* had emptied the list file and not yet written it, and it has read the
\* content the mutation wrote.
C29_Witness ==
    \E t, u \in Threads :
        /\ t # u
        /\ req[u].op \in Mutations /\ req[u].filename = req[t].filename
        /\ ghost[u].rewrote
        /\ ghost[t].start = [exists |-> TRUE, bytes |-> <<>>]
        /\ \/ req[t].op = "read" /\ pc[t] = "rd_release" /\ loc[t].lines # <<>>
           \/ req[t].op = "export" /\ pc[t] = "ex_release" /\ res[t].content # <<>>

\* C30: of two mutations of the same list that have both rewritten the list
\* file and written their ledger line, the one that rewrote the file first
\* has the earlier ledger line.
C30_LedgerOrder ==
    \A t, u \in Threads :
        ( /\ req[t].op \in Mutations /\ req[u].op \in Mutations
          /\ req[t].filename = req[u].filename
          /\ ghost[t].ledger_no > 0 /\ ghost[u].ledger_no > 0
          /\ ghost[t].rewrite_no < ghost[u].rewrite_no )
        => ghost[t].ledger_no < ghost[u].ledger_no

\* Where " -> " starts in the payload of an UPDATE ledger line.
ArrowAt(payload) ==
    CHOOSE i \in 1..Len(payload) :
        /\ SubSeq(payload, i, i + Len(ARROW) - 1) = ARROW
        /\ \A j \in 1..(i - 1) : SubSeq(payload, j, j + Len(ARROW) - 1) # ARROW

\* The entries after the ledger record entry is applied to lines: ADD appends
\* the value, UPDATE replaces old by new, DELETE removes the value.
Apply(lines, entry) ==
    LET payload == IF Len(entry) = 4 THEN entry[4] ELSE <<>> IN
    CASE entry[3] = "ADD" -> Append(lines, payload)
      [] entry[3] = "UPDATE" ->
            LET old == SubSeq(payload, 1, ArrowAt(payload) - 1)
                new == SubSeq(payload, ArrowAt(payload) + Len(ARROW), Len(payload))
            IN [i \in 1..Len(lines) |-> IF lines[i] = old THEN new ELSE lines[i]]
      [] entry[3] = "DELETE" ->
            SelectSeq(lines, LAMBDA line : line # payload)

\* The ledger records of list filename applied in ledger order to no entries.
RECURSIVE Replay(_, _)
Replay(ledger, filename) ==
    IF ledger = <<>> THEN <<>>
    ELSE LET entry == ledger[Len(ledger)]
             lines == Replay(SubSeq(ledger, 1, Len(ledger) - 1), filename)
         IN IF entry[2] = filename THEN Apply(lines, entry) ELSE lines

\* A mutation of list filename has been called and has not yet returned its
\* response.
InFlight(filename) ==
    \E t \in Threads :
        /\ req[t].op \in Mutations
        /\ req[t].filename = filename
        /\ pc[t] \notin {"idle", "done"}

\* C31: in every state where no mutation of a list is in flight, applying
\* the list's ledger records in ledger order to the empty list yields the
\* list's current entries in order.
C31_LedgerReplay ==
    \A n \in ListFiles :
        ~InFlight(n) => Replay(change_log, n) = Lines(files[n])

\* C32: a thread has ledger bytes that have not reached change.log only
\* while its exclusive advisory lock on change.log is held: the bytes of the
\* line reach the file after the lock is taken and before it is released.
C32_WriteUnderFlock ==
    \A t \in Threads : loc[t].buffer # <<>> => loc[t].flock

\* C33: an update of an existing list with a non-blank value and an index in
\* range fails with "Entry already exists" when another entry holds the
\* trimmed value; when only the entry at the index holds it, the update
\* succeeds, leaves the entries as they were and appends one UPDATE ledger
\* line whose old and new values are equal.
C33_SelfUpdate ==
    \A t \in Threads :
        LET lines == Lines(ghost[t].start)
            value == strip(req[t].value)
            i == req[t].index + 1
        IN
        ( /\ pc[t] = "done" /\ req[t].op = "update"
          /\ ghost[t].start.exists /\ value # <<>> /\ i \in 1..Len(lines) )
        => IF \E j \in 1..Len(lines) : j # i /\ lines[j] = value
           THEN res[t].status = 400 /\ res[t].detail = "Entry already exists"
           ELSE lines[i] = value
                => /\ res[t].status = 200
                   /\ Lines(files[req[t].filename]) = lines
                   /\ Len(change_log) = Len(ghost[t].log_start) + 1
                   /\ SubSeq(change_log, 1, Len(ghost[t].log_start))
                         = ghost[t].log_start
                   /\ Tail(change_log[Len(change_log)])
                         = <<req[t].filename, "UPDATE", value \o ARROW \o value>>

\* Thread t holds a per-file lock.
HoldsALock(t) == \E l \in 1..Len(lock_held) : lock_held[l] = t

\* Thread t waits for the registry mutex or for a per-file lock.
Waits(t) == pc[t] \in AtMutex \cup AtAcquire

\* C34: no thread waits for the registry mutex or a per-file lock while it
\* holds a per-file lock, and under fair scheduling every call that has begun
\* comes to its response.
C34_Terminates ==
    /\ [](\A t \in Threads : Waits(t) => ~HoldsALock(t))
    /\ \A t \in Threads : (pc[t] # "idle") ~> (pc[t] = "done")

\* C34's case: two calls on the same list that ran at the same time, each a
\* mutation that took the list's lock, have both come to their response.
C34_Witness ==
    \E t, u \in Threads :
        /\ t # u
        /\ hist = <<>>
        /\ req[t].filename = req[u].filename
        /\ ghost[t].rewrote /\ ghost[u].rewrote
        /\ pc[t] = "done" /\ pc[u] = "done"

\* C35: a per-file lock is held only by a thread that is inside a locked
\* section: a thread whose call has returned, with a success or an error,
\* or that is between two locked sections, holds no per-file lock.
C35_LockReleased ==
    /\ \A l \in 1..Len(lock_held) :
          lock_held[l] # 0 => pc[lock_held[l]] \in InLock /\ loc[lock_held[l]].lock = l
    /\ \A t \in Threads : pc[t] \in {"idle", "done"} => ~HoldsALock(t)

\* C35's case: a call ended with an I/O error inside a locked section of a
\* list, and a later call has acquired the lock of the same list.
C35_Witness ==
    \E t \in Threads : \E i \in 1..Len(hist) :
        /\ hist[i].res.status = 500
        /\ hist[i].req.filename = req[t].filename
        /\ pc[t] \in InLock
        /\ lock_held[file_locks[req[t].filename]] = t

\* C36: a mutation of an existing list that was rejected with "Entry already
\* exists" or "Invalid line index" has written a backup file whose content
\* is the content of the list file, which is as it was; a call rejected for
\* its name, for an empty entry or for a missing list has written no backup.
C36_SnapshotBeforeChecks ==
    \A t \in Threads :
        (pc[t] = "done" /\ req[t].op \in Mutations)
        => /\ ( /\ res[t].detail \in {"Entry already exists", "Invalid line index"}
                /\ ghost[t].start.exists )
              => /\ ghost[t].snapshot
                 /\ files[req[t].filename] = ghost[t].start
                 /\ backups[<<req[t].filename, loc[t].timestamp>>]
                       = files[req[t].filename]
           /\ res[t].detail \in
                 InvalidName \cup {"Empty entries are not allowed", "File not found"}
              => ~ghost[t].snapshot /\ loc[t].timestamp = 0

\* C37: every line of the ledger carries a payload: an ADD line a non-empty
\* new value, a DELETE line a non-empty old value, an UPDATE line a
\* non-empty old value, " -> " and a non-empty new value; no line has the
\* form without a payload.
C37_PayloadPresent ==
    \A i \in 1..Len(change_log) :
        LET entry == change_log[i] IN
        /\ Len(entry) = 4
        /\ entry[4] # <<>>
        /\ entry[3] = "UPDATE"
           => \E k \in 2..(Len(entry[4]) - Len(ARROW)) :
                 SubSeq(entry[4], k, k + Len(ARROW) - 1) = ARROW

\* C37's case: a delete or an update of a list file that holds a blank line
\* has succeeded and its ledger line, the last one, carries the old value.
C37_Witness ==
    \E t \in Threads :
        /\ Succeeded(t)
        /\ req[t].op \in {"update", "delete"}
        /\ \E k \in 1..Len(SplitNL(ghost[t].start.bytes)) :
              SplitNL(ghost[t].start.bytes)[k] = <<>>
        /\ Len(change_log) = Len(ghost[t].log_start) + 1
        /\ res[t].old_value # <<>>
        /\ Contains(change_log[Len(change_log)][4], res[t].old_value)

=============================================================================
